---- MODULE Spec2Model ----
(***************************************************************************)
(* dvbzap (src/src/dvbzap.c): main() and SignalHandler().                  *)
(*                                                                         *)
(* main() is a straight-line program: it reads the configuration file,     *)
(* post-processes the options, validates the output sinks, creates the     *)
(* state files, installs SignalHandler, opens and tunes the frontend and   *)
(* ends in mumudvb_close.  SignalHandler runs asynchronously between any   *)
(* two steps of main once it is installed.                                 *)
(*                                                                         *)
(* SpecConf steps through the configuration loop one line at a time.       *)
(* SpecBuffers and SpecSinks do the same on files that hold only the       *)
(* buffer sizes, and only the outputs and options, the latter up to the    *)
(* sink validation.  Spec runs the whole of main, reading a whole          *)
(* configuration file in one step, with signals delivered between the      *)
(* steps.                                                                  *)
(***************************************************************************)
EXTENDS Integers, Sequences, FiniteSets, TLC

(***************************************************************************)
(* Bounds of the model.  MAX_CHANNELS and MAX_PIDS are the array sizes of  *)
(* mumudvb.h, scaled down; MaxDirectives bounds the number of lines other  *)
(* than new_channel that SpecConf reads from one file, MaxBufferLines the  *)
(* number of lines that SpecBuffers reads from one file and               *)
(* MaxOptionLines the number that SpecSinks reads.                         *)
(***************************************************************************)
MAX_CHANNELS == 2
MAX_PIDS == 3
MaxDirectives == 2
MaxBufferLines == 3
MaxOptionLines == 3

(***************************************************************************)
(* Program constants: signal numbers (signal.h) and exit codes (errors.h). *)
(***************************************************************************)
SIGHUP == 1
SIGINT == 2
SIGUSR1 == 10
SIGSEGV == 11
SIGUSR2 == 12
SIGPIPE == 13
SIGALRM == 14
SIGTERM == 15

ERROR_CONF_FILE == 2
ERROR_CONF == 3
ERROR_TOO_CHANNELS == 4
ERROR_CREATE_FILE == 5
ERROR_TUNE == 7

\* x << 8 on an int
Shl8(x) == x * 256

\* the status main() hands to the system: the low 8 bits of the value
ExitStatus(v) == v % 256

(***************************************************************************)
(* Text.  A token is a sequence of ASCII codes; atoi converts the longest  *)
(* prefix of the form [-]digits and ignores what follows it.               *)
(***************************************************************************)
Str(digits) == [i \in DOMAIN digits |-> 48 + digits[i]]

RECURSIVE AtoiDigits(_, _, _)
AtoiDigits(s, i, acc) ==
    IF i > Len(s) \/ s[i] \notin 48..57
    THEN acc
    ELSE AtoiDigits(s, i + 1, acc * 10 + (s[i] - 48))

atoi(s) ==
    IF Len(s) > 0 /\ s[1] = 45
    THEN 0 - AtoiDigits(s, 2, 0)
    ELSE AtoiDigits(s, 1, 0)

\* the letter x, which ends a number
LetterX == <<120>>

(***************************************************************************)
(* Channel records.  chan_p is cleared with memset at the start of main;   *)
(* a cleared record is a channel that is not declared yet.                 *)
(***************************************************************************)
ClearedChannel ==
    [channel_ready |-> "NOT_READY",
     service_id    |-> 0,
     pid_f         |-> "F_UNDEF",
     pmt_rewrite   |-> 0,
     num_pids      |-> 0,
     pids          |-> [i \in 0..(MAX_PIDS - 1) |-> 0],
     pmt_pid       |-> 0,
     pmt_pid_f     |-> "F_UNDEF",
     name          |-> <<>>,
     name_f        |-> "F_UNDEF"]

ChannelIndex == 0..(MAX_CHANNELS - 1)

\* the defaults of init_multicast_v, init_unicast_v, init_sap_v, init_aconf_v
\* and init_rewr_v: multicast on with a TTL of 2, unicast off, the rest unset
init_multicast_v == [multicast |-> 1, ttl |-> 2, rtp_header |-> 0]
init_unicast_v == [unicast |-> 0]
init_sap_v == [sap |-> "OPTION_UNDEFINED"]
init_aconf_v == [autoconfiguration |-> 0]
init_rewr_v == [rewrite_pat |-> "OPTION_UNDEFINED", rewrite_sdt |-> "OPTION_UNDEFINED"]

\* log_params before the configuration is read: no log file asked for
\* (log_file_path is NULL), none open
init_log_params ==
    [log_file_path |-> <<>>, log_file |-> "NULL", logging_file |-> FALSE]

\* the locals and structures of main() that the configuration loop writes
InitialConf ==
    [ichan        |-> -1,
     chan_p       |-> [number_of_channels |-> 0,
                       t2mi_pid |-> 0,
                       channels |-> [i \in ChannelIndex |-> ClearedChannel]],
     card_buffer  |-> [dvr_buffer_size |-> 20, max_thread_buffer_size |-> 5000],
     multi_p      |-> init_multicast_v,
     unic_p       |-> init_unicast_v,
     sap_p        |-> init_sap_v,
     auto_p       |-> init_aconf_v,
     rewrite_vars |-> init_rewr_v,
     log_params   |-> init_log_params,
     oob_write    |-> FALSE,
     pids_overrun |-> FALSE,
     exited       |-> FALSE,
     exit_code    |-> 0]

\* exit(code) inside the configuration loop
ConfExit(c, code) == [c EXCEPT !.exited = TRUE, !.exit_code = code]

\* c_chan = (ichan < 0) ? NULL : &chan_p.channels[ichan]
CChanIsNull(c) == c.ichan < 0

\* a store through c_chan, or through chan_p.channels[ichan]: a record of the
\* array when the index is inside it, memory behind the array otherwise
StoreChannel(c, ch) ==
    IF c.ichan \in ChannelIndex
    THEN [c EXCEPT !.chan_p.channels[c.ichan] = ch]
    ELSE [c EXCEPT !.oob_write = TRUE]

\* the record c_chan points to; behind the array the memory holds anything,
\* and the loop only reads back what it has just written there
LoadChannel(c) ==
    IF c.ichan \in ChannelIndex THEN c.chan_p.channels[c.ichan] ELSE ClearedChannel

(***************************************************************************)
(* The directives of the configuration loop.  A line is its first token    *)
(* (key) and the tokens that follow it (args).                             *)
(***************************************************************************)
Line(key, args) == [key |-> key, args |-> args]

\* "we see if the given pid is good"
PidIsBad(v) == v < 10 \/ v >= 8193

TooManyPidsMut(ipid) == ipid > MAX_PIDS
TooManyPids(ipid) == ipid >= MAX_PIDS

\* the while loop of the pids directive, from token ipid on: each value is
\* stored in pids[ipid] before it is looked at, and num_pids is set only when
\* the loop runs to the end of the line
RECURSIVE ReadPids(_, _, _)
ReadPids(ch, toks, ipid) ==
    IF toks = <<>>
    THEN [ch |-> [ch EXCEPT !.num_pids = ipid], failed |-> FALSE, overrun |-> FALSE]
    ELSE IF ipid \notin DOMAIN ch.pids
    THEN [ch |-> ch, failed |-> FALSE, overrun |-> TRUE]
    ELSE LET v == atoi(Head(toks))
             ch1 == [ch EXCEPT !.pids[ipid] = v]
         IN  IF PidIsBad(v) \/ TooManyPids(ipid + 1)
             THEN [ch |-> ch1, failed |-> TRUE, overrun |-> FALSE]
             ELSE ReadPids(ch1, Tail(toks), ipid + 1)

PidsDirective(c, args) ==
    IF CChanIsNull(c)
    THEN ConfExit(c, ERROR_CONF)
    ELSE LET ch0 == [LoadChannel(c) EXCEPT !.pid_f = "F_USER", !.pmt_rewrite = 1]
             r   == ReadPids(ch0, args, 0)
             c1  == [StoreChannel(c, r.ch) EXCEPT
                        !.pids_overrun = c.pids_overrun \/ r.overrun]
         IN  IF r.failed THEN ConfExit(c1, ERROR_CONF) ELSE c1

\* pmt_pid leaves main with return -1 where the other directives call exit
PmtPidDirective(c, args) ==
    IF CChanIsNull(c)
    THEN ConfExit(c, ExitStatus(-1))
    ELSE LET v  == atoi(args[1])
             c1 == StoreChannel(c, [LoadChannel(c) EXCEPT !.pmt_pid = v])
         IN  IF v < 10 \/ v > 8191
             THEN ConfExit(c1, ExitStatus(-1))
             ELSE StoreChannel(c, [LoadChannel(c) EXCEPT
                                      !.pmt_pid = v, !.pmt_pid_f = "F_USER"])

ServiceIdDirective(c, args) ==
    IF CChanIsNull(c)
    THEN ConfExit(c, ERROR_CONF)
    ELSE StoreChannel(c, [LoadChannel(c) EXCEPT !.service_id = atoi(args[1])])

NameDirective(c, args) ==
    IF CChanIsNull(c)
    THEN ConfExit(c, ERROR_CONF)
    ELSE StoreChannel(c, [LoadChannel(c) EXCEPT !.name_f = "F_USER", !.name = args[1]])

NewChannelDirective(c) ==
    LET c1 == [c EXCEPT !.ichan = c.ichan + 1]
    IN  StoreChannel(c1, [LoadChannel(c1) EXCEPT !.channel_ready = "ALMOST_READY"])

DvrBufferSizeDirective(c, args) ==
    LET v == atoi(args[1])
    IN  [c EXCEPT !.card_buffer.dvr_buffer_size = IF v <= 0 THEN 1 ELSE v]

DvrThreadBufferSizeDirective(c, args) ==
    [c EXCEPT !.card_buffer.max_thread_buffer_size = atoi(args[1])]

T2miPidDirective(c, args) ==
    LET v == atoi(args[1])
    IN  [c EXCEPT !.chan_p.t2mi_pid = IF v < 1 \/ v > 8192 THEN 4096 ELSE v]

\* read_autoconfiguration_configuration, read_sap_configuration,
\* read_unicast_configuration, read_multicast_configuration and
\* read_rewrite_configuration: each takes the lines of its own options
OnOff(v) == IF v # 0 THEN "OPTION_ON" ELSE "OPTION_OFF"

ExternalKeys ==
    {"autoconfiguration", "sap", "unicast", "multicast", "multicast_ttl",
     "rtp_header", "rewrite_pat", "rewrite_sdt", "log_file"}

ReadExternalConfiguration(c, line) ==
    LET v == atoi(line.args[1])
    IN  CASE line.key = "autoconfiguration" -> [c EXCEPT !.auto_p.autoconfiguration = v]
          [] line.key = "sap"               -> [c EXCEPT !.sap_p.sap = OnOff(v)]
          [] line.key = "unicast"           -> [c EXCEPT !.unic_p.unicast = v]
          [] line.key = "multicast"         -> [c EXCEPT !.multi_p.multicast = v]
          [] line.key = "multicast_ttl"     -> [c EXCEPT !.multi_p.ttl = v]
          [] line.key = "rtp_header"        -> [c EXCEPT !.multi_p.rtp_header = v]
          [] line.key = "rewrite_pat"       -> [c EXCEPT !.rewrite_vars.rewrite_pat = OnOff(v)]
          [] line.key = "rewrite_sdt"       -> [c EXCEPT !.rewrite_vars.rewrite_sdt = OnOff(v)]
          [] line.key = "log_file"          -> [c EXCEPT !.log_params.log_file_path = line.args[1]]

KnownKeys ==
    ExternalKeys \cup
    {"new_channel", "dvr_buffer_size", "dvr_thread_buffer_size", "service_id",
     "ts_id", "pids", "pmt_pid", "name", "t2mi_pid"}

\* the if / else-if chain of the loop body
Directive(c, line) ==
    CASE line.key \in ExternalKeys            -> ReadExternalConfiguration(c, line)
      [] line.key = "new_channel"             -> NewChannelDirective(c)
      [] line.key = "dvr_buffer_size"         -> DvrBufferSizeDirective(c, line.args)
      [] line.key = "dvr_thread_buffer_size"  -> DvrThreadBufferSizeDirective(c, line.args)
      [] line.key \in {"service_id", "ts_id"} -> ServiceIdDirective(c, line.args)
      [] line.key = "pids"                    -> PidsDirective(c, line.args)
      [] line.key = "pmt_pid"                 -> PmtPidDirective(c, line.args)
      [] line.key = "name"                    -> NameDirective(c, line.args)
      [] line.key = "t2mi_pid"                -> T2miPidDirective(c, line.args)

TooManyChannels(ichan) == ichan > MAX_CHANNELS

\* one turn of the loop on a line that is not a comment: the directive, then
\* the check of the channel count; an unknown key goes on to the next line
\* before that check
ParseLine(c, line) ==
    IF c.exited \/ line.key \notin KnownKeys
    THEN c
    ELSE LET c1 == Directive(c, line)
         IN  IF c1.exited THEN c1
             ELSE IF TooManyChannels(c1.ichan) THEN ConfExit(c1, ERROR_TOO_CHANNELS)
             ELSE c1

RECURSIVE ParseFile(_, _)
ParseFile(c, lines) ==
    IF lines = <<>> THEN c ELSE ParseFile(ParseLine(c, Head(lines)), Tail(lines))

\* "if Autoconfiguration, we set other option default"
AutoconfDefaultMut(aconf, option) == IF aconf # 0 THEN "OPTION_ON" ELSE option
AutoconfDefault(aconf, option) ==
    IF aconf # 0 /\ option = "OPTION_UNDEFINED" THEN "OPTION_ON" ELSE option

\* "a DVR buffer size too low to accept T2-MI frames"
DvrBufferSize(t2mi_pid, dvr) == IF t2mi_pid > 0 /\ dvr < 20 THEN 20 ELSE dvr

\* "a thread buffer size lower than your DVR buffer size"
MaxThreadBufferSizeMut(thr, dvr) == thr
MaxThreadBufferSize(thr, dvr) == IF thr < dvr THEN dvr ELSE thr

\* after the loop: the defaults that autoconfiguration sets, the buffer sizes,
\* and the channel count ("+ 1 because of the new syntax")
EndOfConfiguration(c) ==
    LET aconf == c.auto_p.autoconfiguration
        sap   == IF c.multi_p.multicast # 0
                 THEN AutoconfDefault(aconf, c.sap_p.sap) ELSE c.sap_p.sap
        pat   == AutoconfDefault(aconf, c.rewrite_vars.rewrite_pat)
        sdt   == AutoconfDefault(aconf, c.rewrite_vars.rewrite_sdt)
        dvr   == DvrBufferSize(c.chan_p.t2mi_pid, c.card_buffer.dvr_buffer_size)
        thr   == MaxThreadBufferSize(c.card_buffer.max_thread_buffer_size, dvr)
    IN  [c EXCEPT !.sap_p.sap = sap,
                  !.rewrite_vars.rewrite_pat = pat,
                  !.rewrite_vars.rewrite_sdt = sdt,
                  !.card_buffer.dvr_buffer_size = dvr,
                  !.card_buffer.max_thread_buffer_size = thr,
                  !.chan_p.number_of_channels = c.ichan + 1]

(***************************************************************************)
(* State.                                                                  *)
(***************************************************************************)
VARIABLES
    pc,                \* where main() is
    exit_code,         \* the status of exit() or of main's return
    term_sig,          \* the signal that ended the process, 0 if none
    no_daemon,         \* command line
    tune_p,            \* card_tuned, tuning_timeout, read_file_path
    current_line,      \* the configuration line read last
    ndirectives,       \* lines read that are not new_channel
    ichan, chan_p, card_buffer, multi_p, unic_p, sap_p, auto_p, rewrite_vars,
    log_params,        \* the path of the optional log file and the file itself
    oob_write,         \* a store went behind chan_p.channels
    pids_overrun,      \* a store went behind a channel's pids
    interrupted,       \* the flag of set_interrupted / get_interrupted
    received_signal,
    sig_disp,          \* the disposition of each signal
    alarm_armed,       \* alarm(tuning_timeout) is pending
    write_streamed_channels,
    files,             \* the files main() has created
    fds,               \* fd_frontend and whether close_card_fd has run
    iRet,
    close_cause        \* the cause mumudvb_close was called with, -1 before

confvars ==
    <<ichan, chan_p, card_buffer, multi_p, unic_p, sap_p, auto_p, rewrite_vars,
      log_params, oob_write, pids_overrun>>

sigvars == <<interrupted, received_signal, sig_disp, alarm_armed>>

runvars == <<write_streamed_channels, files, fds, iRet, close_cause>>

vars ==
    <<pc, exit_code, term_sig, no_daemon, tune_p, current_line, ndirectives,
      confvars, sigvars, runvars>>

Signals == {SIGHUP, SIGINT, SIGUSR1, SIGUSR2, SIGPIPE, SIGALRM, SIGTERM}

\* the signals main() installs SignalHandler for
HandledSignals == {SIGALRM, SIGUSR1, SIGUSR2, SIGHUP}

\* the configuration as one record, and its write-back
Conf ==
    [ichan        |-> ichan,
     chan_p       |-> chan_p,
     card_buffer  |-> card_buffer,
     multi_p      |-> multi_p,
     unic_p       |-> unic_p,
     sap_p        |-> sap_p,
     auto_p       |-> auto_p,
     rewrite_vars |-> rewrite_vars,
     log_params   |-> log_params,
     oob_write    |-> oob_write,
     pids_overrun |-> pids_overrun,
     exited       |-> FALSE,
     exit_code    |-> 0]

SetConf(c) ==
    /\ ichan' = c.ichan
    /\ chan_p' = c.chan_p
    /\ card_buffer' = c.card_buffer
    /\ multi_p' = c.multi_p
    /\ unic_p' = c.unic_p
    /\ sap_p' = c.sap_p
    /\ auto_p' = c.auto_p
    /\ rewrite_vars' = c.rewrite_vars
    /\ log_params' = c.log_params
    /\ oob_write' = c.oob_write
    /\ pids_overrun' = c.pids_overrun

\* the process is running
Alive == pc \notin {"exited", "killed", "done"}

\* exit(code)
Exit(code) == pc' = "exited" /\ exit_code' = code

\* the state after the declarations of main(), for a given command line and
\* given signal dispositions inherited from the parent
InitWith(nd, timeout, file, ignored) ==
    /\ pc = "start"
    /\ exit_code = 0
    /\ term_sig = 0
    /\ no_daemon = nd
    /\ tune_p = [card_tuned |-> 0, tuning_timeout |-> timeout, read_file_path |-> file]
    /\ current_line = Line("", <<>>)
    /\ ndirectives = 0
    /\ ichan = InitialConf.ichan
    /\ chan_p = InitialConf.chan_p
    /\ card_buffer = InitialConf.card_buffer
    /\ multi_p = InitialConf.multi_p
    /\ unic_p = InitialConf.unic_p
    /\ sap_p = InitialConf.sap_p
    /\ auto_p = InitialConf.auto_p
    /\ rewrite_vars = InitialConf.rewrite_vars
    /\ log_params = InitialConf.log_params
    /\ oob_write = FALSE
    /\ pids_overrun = FALSE
    /\ interrupted = 0
    /\ received_signal = 0
    /\ sig_disp = [s \in Signals |-> IF s \in ignored THEN "SIG_IGN" ELSE "SIG_DFL"]
    /\ alarm_armed = FALSE
    /\ write_streamed_channels = 1
    /\ files = {}
    /\ fds = [fd_frontend |-> "unset", card_fd_closed |-> FALSE]
    /\ iRet = 0
    /\ close_cause = -1

(***************************************************************************)
(* Start of main(): daemon() when the command line asks for it.            *)
(***************************************************************************)
Daemonize ==
    /\ pc = "start"
    /\ \/ pc' = "conf" /\ UNCHANGED exit_code
       \/ no_daemon = 0 /\ Exit(666)
    /\ UNCHANGED <<term_sig, no_daemon, tune_p, current_line, ndirectives,
                   confvars, sigvars, runvars>>

(***************************************************************************)
(* The configuration loop, one line at a time.                             *)
(***************************************************************************)
\* the lines SpecConf reads
AscPids(n) == [i \in 1..n |-> Str(<<1, i - 1>>)]
DescPids(n) == [i \in 1..n |-> Str(<<1, n - i>>)]

BadPidTokens == {Str(<<8, 1, 9, 3>>), LetterX}

PidsLines ==
    {AscPids(n) : n \in 0..MAX_PIDS}
    \cup {DescPids(n) : n \in 2..MAX_PIDS}
    \cup {Append(AscPids(n), t) : n \in 0..(MAX_PIDS - 1), t \in BadPidTokens}
    \cup {<<Str(<<8, 1, 9, 2>>)>>, <<Str(<<1, 0>>) \o LetterX>>}

PmtPidTokens == {Str(<<1, 0, 0>>), Str(<<8, 1, 9, 2>>), Str(<<9>>)}

\* the lines that size the buffers: below, at and above the limits
BufferLines ==
    {Line("dvr_buffer_size", <<t>>) : t \in {Str(<<0>>), Str(<<5>>), Str(<<3, 0>>)}}
    \cup {Line("dvr_thread_buffer_size", <<t>>) : t \in {Str(<<3>>), Str(<<2, 5>>)}}
    \cup {Line("t2mi_pid", <<t>>) : t \in {Str(<<0>>), Str(<<1, 0, 0>>)}}

ConfLines ==
    {Line("new_channel", <<>>)}
    \cup {Line("pids", l) : l \in PidsLines}
    \cup {Line("pmt_pid", <<t>>) : t \in PmtPidTokens}
    \cup {Line("service_id", <<Str(<<7>>)>>), Line("ts_id", <<Str(<<7>>)>>)}
    \cup {Line("name", <<LetterX>>)}
    \cup {Line("log_file", <<LetterX>>)}
    \cup BufferLines

\* what a store behind the array does is undefined: the program goes on with
\* some memory overwritten, or it is stopped by SIGSEGV
StoresBehindArray(c, line) ==
    ~c.exited /\ ParseLine([c EXCEPT !.oob_write = FALSE], line).oob_write

ReadLineUpTo(line, max) ==
    /\ pc = "conf"
    /\ line.key = "new_channel" \/ ndirectives < max
    /\ LET c == ParseLine(Conf, line)
       IN  /\ SetConf(c)
           /\ \/ /\ ~c.exited
                 /\ UNCHANGED <<pc, exit_code, term_sig>>
              \/ /\ c.exited
                 /\ Exit(c.exit_code)
                 /\ UNCHANGED term_sig
              \/ /\ StoresBehindArray(Conf, line)
                 /\ pc' = "killed"
                 /\ term_sig' = SIGSEGV
                 /\ UNCHANGED exit_code
    /\ current_line' = line
    /\ ndirectives' = IF line.key = "new_channel" THEN ndirectives ELSE ndirectives + 1
    /\ UNCHANGED <<no_daemon, tune_p, sigvars, runvars>>

ReadLine(line) == ReadLineUpTo(line, MaxDirectives)

\* fgets returns NULL: the end of the loop and the post-processing
EndOfFile ==
    /\ pc = "conf"
    /\ SetConf(EndOfConfiguration(Conf))
    /\ pc' = "log_file"
    /\ UNCHANGED <<exit_code, term_sig, no_daemon, tune_p, current_line,
                   ndirectives, sigvars, runvars>>

\* the optional log file: fopen(log_file_path, "a") when a path was given;
\* when it fails a warning is logged and nothing else changes
FopenLogFile(lp, fopen_ok) ==
    IF lp.log_file_path = <<>>
    THEN lp
    ELSE IF fopen_ok
    THEN [lp EXCEPT !.log_file = "open", !.logging_file = TRUE]
    ELSE [lp EXCEPT !.log_file = "NULL"]

OpenLogFile ==
    /\ pc = "log_file"
    /\ \E fopen_ok \in BOOLEAN : log_params' = FopenLogFile(log_params, fopen_ok)
    /\ pc' = "sink_check"
    /\ UNCHANGED <<exit_code, term_sig, no_daemon, tune_p, current_line, ndirectives,
                   ichan, chan_p, card_buffer, multi_p, unic_p, sap_p, auto_p,
                   rewrite_vars, oob_write, pids_overrun, sigvars, runvars>>

InitConf == InitWith(1, 0, "", {})

NextConf ==
    \/ Daemonize
    \/ \E line \in ConfLines : ReadLine(line)
    \/ EndOfFile
    \/ OpenLogFile

SpecConf == InitConf /\ [][NextConf]_vars

\* the configuration loop on files that only size the buffers
ReadBufferLine(line) == ReadLineUpTo(line, MaxBufferLines)

NextBuffers ==
    \/ Daemonize
    \/ \E line \in BufferLines : ReadBufferLine(line)
    \/ EndOfFile
    \/ OpenLogFile

SpecBuffers == InitConf /\ [][NextBuffers]_vars

(***************************************************************************)
(* main() as a whole.  The configuration file is read in one step.         *)
(***************************************************************************)
NewChannel == Line("new_channel", <<>>)
Pids2 == Line("pids", DescPids(2))
PmtPid100 == Line("pmt_pid", <<Str(<<1, 0, 0>>)>>)
Multicast0 == Line("multicast", <<Str(<<0>>)>>)
Ttl0 == Line("multicast_ttl", <<Str(<<0>>)>>)
Unicast1 == Line("unicast", <<Str(<<1>>)>>)
LogFile == Line("log_file", <<LetterX>>)

\* the configuration files Spec reads; the empty one also stands for a run
\* without a configuration file
ConfFiles ==
    {<<>>,
     <<NewChannel, Pids2, PmtPid100>>,
     <<NewChannel, Pids2, PmtPid100, NewChannel, Pids2>>,
     <<Multicast0>>,
     <<Ttl0>>,
     <<Multicast0, Unicast1>>,
     <<Ttl0, Unicast1, NewChannel, PmtPid100>>,
     <<Pids2>>,
     <<LogFile, NewChannel, Pids2>>,
     [i \in 1..(MAX_CHANNELS + 1) |-> NewChannel]}

RECURSIVE FileStoresBehindArray(_, _)
FileStoresBehindArray(c, lines) ==
    /\ lines # <<>>
    /\ \/ StoresBehindArray(c, Head(lines))
       \/ FileStoresBehindArray(ParseLine(c, Head(lines)), Tail(lines))

ReadConfiguration ==
    /\ pc = "conf"
    /\ \/ /\ Exit(ERROR_CONF_FILE)
          /\ UNCHANGED <<term_sig, current_line, confvars>>
       \/ \E f \in ConfFiles :
            LET c == ParseFile(Conf, f)
            IN  /\ current_line' = IF f = <<>> THEN current_line ELSE f[Len(f)]
                /\ \/ /\ ~c.exited
                      /\ SetConf(EndOfConfiguration(c))
                      /\ pc' = "log_file"
                      /\ UNCHANGED <<exit_code, term_sig>>
                   \/ /\ c.exited
                      /\ SetConf(c)
                      /\ Exit(c.exit_code)
                      /\ UNCHANGED term_sig
                   \/ /\ FileStoresBehindArray(Conf, f)
                      /\ SetConf(c)
                      /\ pc' = "killed"
                      /\ term_sig' = SIGSEGV
                      /\ UNCHANGED exit_code
    /\ UNCHANGED <<no_daemon, tune_p, ndirectives, sigvars, runvars>>

\* set_interrupted(value) and get_interrupted()
set_interrupted(value) == interrupted' = value
get_interrupted == interrupted

\* "the multicast TTL is set to 0, multicast will be disabled"
MulticastAfterTtlMut(mp) == mp.multicast
MulticastAfterTtl(mp) == IF mp.ttl = 0 THEN 0 ELSE mp.multicast

\* "we disable things depending on multicast if multicast is suppressed", then
\* "NO Multicast AND NO unicast"
SinkValidation ==
    /\ pc = "sink_check"
    /\ LET mc == MulticastAfterTtl(multi_p)
       IN  /\ multi_p' = [multi_p EXCEPT
                             !.multicast = mc,
                             !.rtp_header = IF mc = 0 THEN 0 ELSE @]
           /\ sap_p' = [sap_p EXCEPT
                           !.sap = IF mc = 0 /\ @ = "OPTION_ON" THEN "OPTION_OFF" ELSE @]
           /\ IF mc = 0 /\ unic_p.unicast = 0
              THEN set_interrupted(Shl8(ERROR_CONF)) /\ pc' = "close"
              ELSE UNCHANGED interrupted /\ pc' = "state_files"
    /\ UNCHANGED <<exit_code, term_sig, no_daemon, tune_p, current_line, ndirectives,
                   ichan, chan_p, card_buffer, unic_p, auto_p, rewrite_vars,
                   log_params, oob_write, pids_overrun, received_signal, sig_disp,
                   alarm_armed,
                   runvars>>

\* write_streamed_channels after the two fopen: cleared when either fails
StreamedListsMut(wsc, streamed, not_streamed) == IF streamed THEN wsc ELSE 0
StreamedLists(wsc, streamed, not_streamed) ==
    IF streamed /\ not_streamed THEN wsc ELSE 0

\* the lists of streamed and of not streamed channels are emptied
CreateStateFiles ==
    /\ pc = "state_files"
    /\ \E streamed \in BOOLEAN, not_streamed \in BOOLEAN :
          /\ files' = files \cup (IF streamed THEN {"channels_streamed"} ELSE {})
                            \cup (IF not_streamed THEN {"channels_not_streamed"} ELSE {})
          /\ write_streamed_channels' =
                StreamedLists(write_streamed_channels, streamed, not_streamed)
    /\ pc' = "signals"
    /\ UNCHANGED <<exit_code, term_sig, no_daemon, tune_p, current_line, ndirectives,
                   confvars, sigvars, fds, iRet, close_cause>>

\* signal(s, SignalHandler), put back to SIG_IGN where the signal was ignored,
\* then the alarm of the tuning timeout
InstallHandlers ==
    /\ pc = "signals"
    /\ sig_disp' = [s \in Signals |->
                      IF s \in HandledSignals /\ sig_disp[s] # "SIG_IGN"
                      THEN "SignalHandler" ELSE sig_disp[s]]
    /\ alarm_armed' = (tune_p.tuning_timeout # 0)
    /\ pc' = "open_fe"
    /\ UNCHANGED <<exit_code, term_sig, no_daemon, tune_p, current_line, ndirectives,
                   confvars, interrupted, received_signal, runvars>>

close_card_fd(f) ==
    [fd_frontend    |-> IF f.fd_frontend = "open" THEN "closed" ELSE f.fd_frontend,
     card_fd_closed |-> TRUE]

\* open_fe on the file or on the card; "else iRet = -1" when it fails
OpenFe ==
    /\ pc = "open_fe"
    /\ \E r \in {-1, 0, 1} :
          IF r > 0
          THEN /\ iRet' = r
               /\ fds' = [fds EXCEPT !.fd_frontend = "open"]
               /\ pc' = "pidfile"
          ELSE /\ iRet' = -1
               /\ UNCHANGED fds
               /\ pc' = "tune_check"
    /\ UNCHANGED <<exit_code, term_sig, no_daemon, tune_p, current_line, ndirectives,
                   confvars, sigvars, write_streamed_channels, files, close_cause>>

\* if (!no_daemon)
DaemonizedMut(nd) == nd # 0
Daemonized(nd) == nd = 0

\* "we write our pid in a file if we deamonize"
WritePidFile ==
    /\ pc = "pidfile"
    /\ \/ /\ Daemonized(no_daemon)
          /\ files' = files \cup {"pid"}
          /\ pc' = "tune"
          /\ UNCHANGED exit_code
       \/ /\ Daemonized(no_daemon)
          /\ Exit(ERROR_CREATE_FILE)
          /\ UNCHANGED files
       \/ /\ ~Daemonized(no_daemon)
          /\ pc' = "tune"
          /\ UNCHANGED <<exit_code, files>>
    /\ UNCHANGED <<term_sig, no_daemon, tune_p, current_line, ndirectives,
                   confvars, sigvars, write_streamed_channels, fds, iRet, close_cause>>

\* tune_it, or "no tuning if file input"
TuneIt ==
    /\ pc = "tune"
    /\ IF tune_p.read_file_path # ""
       THEN iRet' = 1
       ELSE \E r \in {-1, 0, 1} : iRet' = r
    /\ pc' = "tune_check"
    /\ UNCHANGED <<exit_code, term_sig, no_daemon, tune_p, current_line, ndirectives,
                   confvars, sigvars, write_streamed_channels, files, fds, close_cause>>

\* "Tuning issue"
TuneFailed ==
    /\ pc = "tune_check"
    /\ iRet < 0
    /\ fds' = close_card_fd(fds)
    /\ set_interrupted(Shl8(ERROR_TUNE))
    /\ pc' = "close"
    /\ UNCHANGED <<exit_code, term_sig, no_daemon, tune_p, current_line, ndirectives,
                   confvars, received_signal, sig_disp, alarm_armed,
                   write_streamed_channels, files, iRet, close_cause>>

\* "Card tuned": dvbzap only zaps, it closes the card and leaves
CardTuned ==
    /\ pc = "tune_check"
    /\ ~(iRet < 0)
    /\ tune_p' = [tune_p EXCEPT !.card_tuned = 1]
    /\ fds' = close_card_fd(fds)
    /\ pc' = "close"
    /\ UNCHANGED <<exit_code, term_sig, no_daemon, current_line, ndirectives,
                   confvars, sigvars, write_streamed_channels, files, iRet, close_cause>>

\* mumudvb_close_goto: mumudvb_close(..., get_interrupted(), ...)
MumudvbClose ==
    /\ pc = "close"
    /\ close_cause' = get_interrupted
    /\ pc' = "done"
    /\ UNCHANGED <<exit_code, term_sig, no_daemon, tune_p, current_line, ndirectives,
                   confvars, sigvars, write_streamed_channels, files, fds, iRet>>

\* the configuration loop on files that only set the outputs and the options
\* that autoconfiguration gives a default to, up to the sink validation
OptionLines ==
    {Line(k, <<Str(<<v>>)>>) : k \in {"sap", "rewrite_pat", "rewrite_sdt"}, v \in {0, 1}}
    \cup {Line("autoconfiguration", <<Str(<<1>>)>>), Line("rtp_header", <<Str(<<1>>)>>),
          Multicast0, Ttl0, Unicast1}

ReadOptionLine(line) == ReadLineUpTo(line, MaxOptionLines)

NextSinks ==
    \/ Daemonize
    \/ \E line \in OptionLines : ReadOptionLine(line)
    \/ EndOfFile
    \/ OpenLogFile
    \/ SinkValidation

SpecSinks == InitConf /\ [][NextSinks]_vars

(***************************************************************************)
(* Signals.                                                                *)
(***************************************************************************)
CardNotTunedMut(card_tuned) == TRUE
CardNotTuned(card_tuned) == card_tuned = 0

IsUserSignalMut(signum) == signum = SIGUSR1 \/ signum = SIGUSR2
IsUserSignal(signum) == signum = SIGUSR1 \/ signum = SIGUSR2 \/ signum = SIGHUP

\* card_tuned points to tune_p.card_tuned from the start of main()
SignalHandler(signum) ==
    IF signum = SIGALRM /\ get_interrupted = 0
    THEN IF CardNotTuned(tune_p.card_tuned)
         THEN /\ Exit(ERROR_TUNE)
              /\ UNCHANGED <<interrupted, received_signal, sig_disp>>
         ELSE /\ sig_disp' = [sig_disp EXCEPT ![signum] = "SignalHandler"]
              /\ UNCHANGED <<pc, exit_code, interrupted, received_signal>>
    ELSE /\ IF IsUserSignal(signum)
            THEN received_signal' = signum /\ UNCHANGED interrupted
            ELSE IF signum # SIGPIPE
            THEN set_interrupted(signum) /\ UNCHANGED received_signal
            ELSE UNCHANGED <<interrupted, received_signal>>
         /\ sig_disp' = [sig_disp EXCEPT ![signum] = "SignalHandler"]
         /\ UNCHANGED <<pc, exit_code>>

\* the system delivers signum: it is ignored, it ends the process (the default
\* action of each of these signals), or SignalHandler runs
Deliver(signum) ==
    /\ Alive
    /\ CASE sig_disp[signum] = "SIG_IGN" ->
              UNCHANGED <<pc, exit_code, term_sig, interrupted, received_signal, sig_disp>>
         [] sig_disp[signum] = "SIG_DFL" ->
              /\ pc' = "killed"
              /\ term_sig' = signum
              /\ UNCHANGED <<exit_code, interrupted, received_signal, sig_disp>>
         [] sig_disp[signum] = "SignalHandler" ->
              /\ SignalHandler(signum)
              /\ UNCHANGED term_sig
    /\ UNCHANGED <<no_daemon, tune_p, current_line, ndirectives, confvars, runvars>>

\* a signal sent to the process
Kill(signum) == Deliver(signum) /\ UNCHANGED alarm_armed

\* the alarm of the tuning timeout goes off
AlarmExpires == alarm_armed /\ Deliver(SIGALRM) /\ alarm_armed' = FALSE

InheritedIgnored == {{}} \cup {{s} : s \in HandledSignals}

Init ==
    \E nd \in {0, 1}, timeout \in {0, 300}, file \in {"", "dump.ts"},
       ignored \in InheritedIgnored :
        InitWith(nd, timeout, file, ignored)

Next ==
    \/ Daemonize
    \/ ReadConfiguration
    \/ OpenLogFile
    \/ SinkValidation
    \/ CreateStateFiles
    \/ InstallHandlers
    \/ OpenFe
    \/ WritePidFile
    \/ TuneIt
    \/ TuneFailed
    \/ CardTuned
    \/ MumudvbClose
    \/ \E signum \in Signals : Kill(signum)
    \/ AlarmExpires

Spec == Init /\ [][Next]_vars

(***************************************************************************)
(* Properties.                                                             *)
(***************************************************************************)

\* C1: every signal other than SIGPIPE, SIGALRM, SIGUSR1, SIGUSR2 and SIGHUP
\* (SIGINT, SIGTERM) that is delivered sets the interrupted flag to its number
\* and leaves the process running towards mumudvb_close; a SIGPIPE changes
\* neither the interrupted flag nor received_signal.
C1_OtherSignalsShutDown ==
    [][\A s \in Signals :
          Kill(s) =>
             /\ s \in {SIGINT, SIGTERM} => (interrupted' = s /\ pc' # "killed")
             /\ s = SIGPIPE =>
                   (interrupted' = interrupted /\ received_signal' = received_signal)
      ]_vars

\* C2: when SignalHandler handles SIGALRM with the interrupted flag unset, the
\* process exits with ERROR_TUNE if card_tuned is 0, and if card_tuned is 1
\* nothing changes (interrupted, received_signal, card_tuned) and main() stays
\* where it is.
C2_TuningTimeout ==
    [][(Deliver(SIGALRM) /\ sig_disp[SIGALRM] = "SignalHandler" /\ interrupted = 0) =>
          IF tune_p.card_tuned = 0
          THEN pc' = "exited" /\ exit_code' = ERROR_TUNE
          ELSE /\ pc' = pc
               /\ interrupted' = interrupted
               /\ received_signal' = received_signal
               /\ tune_p' = tune_p
      ]_vars

\* the tuning timeout has ended the process, the card not tuned
C2_Witness ==
    /\ pc = "exited"
    /\ exit_code = ERROR_TUNE
    /\ tune_p.card_tuned = 0
    /\ interrupted = 0
    /\ sig_disp[SIGALRM] = "SignalHandler"

\* C3: a SIGUSR1, SIGUSR2 or SIGHUP that SignalHandler handles is recorded in
\* received_signal (the last one wins) and changes neither the interrupted
\* flag nor card_tuned nor where main() is; received_signal only ever holds 0,
\* SIGUSR1, SIGUSR2 or SIGHUP.
C3_UserSignalsRecorded ==
    /\ [](received_signal \in {0, SIGUSR1, SIGUSR2, SIGHUP})
    /\ [][\A s \in {SIGUSR1, SIGUSR2, SIGHUP} :
             (Deliver(s) /\ sig_disp[s] = "SignalHandler") =>
                /\ received_signal' = s
                /\ interrupted' = interrupted
                /\ tune_p' = tune_p
                /\ pc' = pc
                /\ exit_code' = exit_code
         ]_vars

\* a SIGHUP has been recorded after a SIGUSR1 or without one, main() running
C3_Witness ==
    /\ received_signal = SIGHUP
    /\ interrupted = 0
    /\ pc = "tune"

\* multicast is disabled, by multicast=0 or by a TTL of 0, and so is unicast
NoSinkConfigured ==
    (multi_p.ttl = 0 \/ multi_p.multicast = 0) /\ unic_p.unicast = 0

\* C4: once the sink validation has run on a configuration with multicast
\* disabled (by multicast=0 or by a TTL of 0) and unicast disabled, the exit
\* cause is ERROR_CONF<<8, main() is at mumudvb_close or past it, and no state
\* file was created, no handler installed, the frontend never opened and tuning
\* never attempted.
C4_NoSinkIsFatal ==
    (NoSinkConfigured /\ pc \notin {"start", "conf", "log_file", "sink_check"}) =>
        /\ pc \in {"close", "done", "killed", "exited"}
        /\ pc \in {"close", "done"} => interrupted = Shl8(ERROR_CONF)
        /\ pc = "done" => close_cause = Shl8(ERROR_CONF)
        /\ files = {}
        /\ \A s \in Signals : sig_disp[s] # "SignalHandler"
        /\ ~alarm_armed
        /\ fds.fd_frontend = "unset"
        /\ iRet = 0

\* a TTL of 0 with multicast=1 and no unicast has ended in mumudvb_close
C4_Witness ==
    /\ pc = "done"
    /\ close_cause = Shl8(ERROR_CONF)
    /\ multi_p.ttl = 0
    /\ current_line = Ttl0

\* C5: whenever open_fe returns a value <= 0 or tune_it a negative one, the
\* process ends with the card descriptors closed, mumudvb_close called with
\* the cause ERROR_TUNE<<8 and card_tuned still 0; card_tuned is 1 only if
\* open_fe returned > 0 and tuning did not fail.
C5_TuneFailureOrderly ==
    /\ (iRet < 0 /\ pc \in {"exited", "done"}) =>
           /\ fds.card_fd_closed
           /\ close_cause = Shl8(ERROR_TUNE)
           /\ tune_p.card_tuned = 0
    /\ tune_p.card_tuned = 1 => (fds.fd_frontend # "unset" /\ ~(iRet < 0))

\* C6: whenever the process ends itself after the frontend was opened,
\* close_card_fd has run and mumudvb_close has been reached.
C6_ResourcesReleased ==
    (pc \in {"exited", "done"} /\ fds.fd_frontend # "unset") =>
        (fds.fd_frontend = "closed" /\ close_cause # -1)

\* C7: after the configuration is read, number_of_channels is the number of
\* new_channel lines, the records of index < number_of_channels are exactly
\* those that are ALMOST_READY, and every other record is NOT_READY.
C7_ChannelDeclaration ==
    pc = "sink_check" =>
        /\ chan_p.number_of_channels = ichan + 1
        /\ \A i \in 0..(chan_p.number_of_channels - 1) :
              /\ i \in ChannelIndex
              /\ chan_p.channels[i].channel_ready = "ALMOST_READY"
        /\ \A i \in ChannelIndex :
              i >= chan_p.number_of_channels =>
                 chan_p.channels[i].channel_ready = "NOT_READY"

\* C8: when main() has finished, every channel whose pids and pmt_pid were set
\* in the configuration file is READY (or STREAMING).
C8_ResolvedChannelIsReady ==
    pc = "done" =>
        \A i \in ChannelIndex :
            (chan_p.channels[i].pid_f = "F_USER" /\ chan_p.channels[i].pmt_pid_f = "F_USER")
               => chan_p.channels[i].channel_ready \in {"READY", "STREAMING"}

\* C9: the configuration loop never touches a channel record of index
\* >= MAX_CHANNELS, and a file that declares more than MAX_CHANNELS channels
\* ends the process with ERROR_TOO_CHANNELS.
C9_ChannelLimitEnforced ==
    /\ ~oob_write
    /\ ichan >= MAX_CHANNELS => (pc = "exited" /\ exit_code = ERROR_TOO_CHANNELS)

\* C10: after a pids line of a channel is processed, num_pids is the number of
\* values of the line and pids[0 .. num_pids-1] are these values in the order
\* written; no store goes to pids[MAX_PIDS] or behind it; a line of MAX_PIDS
\* values or more ends the process with ERROR_CONF.
C10_PidsLineStored ==
    /\ ~pids_overrun
    /\ (current_line.key = "pids" /\ ichan \in ChannelIndex
           /\ pc \in {"conf", "log_file", "sink_check"}) =>
          LET ch == chan_p.channels[ichan]
              args == current_line.args
          IN  /\ ch.num_pids = Len(args)
              /\ \A i \in 1..Len(args) : ch.pids[i - 1] = atoi(args[i])
              /\ ch.pid_f = "F_USER"
    /\ (current_line.key = "pids" /\ ichan < MAX_CHANNELS
           /\ Len(current_line.args) >= MAX_PIDS) =>
          (pc = "exited" /\ exit_code = ERROR_CONF)

\* the line "pids=11 10" has been stored in the first channel, in that order
C10_Witness ==
    /\ pc = "conf"
    /\ current_line = Line("pids", DescPids(2))
    /\ ichan = 0
    /\ chan_p.channels[0].num_pids = 2
    /\ chan_p.channels[0].pids[0] = 11
    /\ chan_p.channels[0].pids[1] = 10

\* the values of a 13-bit packet identifier
IsPid13(v) == v \in 0..8191

\* C11: every value the configuration loop has accepted into a channel (the
\* elements of pids, and pmt_pid once set by the user) is a 13-bit packet
\* identifier, and a pids or pmt_pid line of a declared channel that holds a
\* value outside 0..8191 ends the process.
C11_AcceptedPidsAre13Bit ==
    /\ pc \in {"conf", "log_file", "sink_check"} =>
          \A i \in ChannelIndex :
             LET ch == chan_p.channels[i]
             IN  /\ \A k \in 0..(ch.num_pids - 1) : IsPid13(ch.pids[k])
                 /\ ch.pmt_pid_f = "F_USER" => IsPid13(ch.pmt_pid)
    /\ (current_line.key \in {"pids", "pmt_pid"} /\ ichan \in ChannelIndex
           /\ \E i \in DOMAIN current_line.args : ~IsPid13(atoi(current_line.args[i])))
          => pc = "exited"

LogFileFailed ==
    /\ log_params.log_file_path # <<>>
    /\ log_params.log_file = "NULL"
    /\ pc \notin {"start", "conf", "log_file"}

StateFiles == {"channels_streamed", "channels_not_streamed"}

\* C13: the step that opens the log file always goes on to the sink validation
\* and the step that creates the two channel lists always goes on to the
\* installation of the handlers, the frontend and tuning next; neither sets the
\* interrupted flag or an exit code, whatever fopen returns.  After the lists,
\* write_streamed_channels is 1 exactly when both were created, and nothing
\* ever sets it back to 1.
C13_NonEssentialFilesDegrade ==
    /\ [][OpenLogFile =>
             /\ pc' = "sink_check"
             /\ interrupted' = interrupted
             /\ exit_code' = exit_code
             /\ write_streamed_channels' = write_streamed_channels
         ]_vars
    /\ [][CreateStateFiles =>
             /\ pc' = "signals"
             /\ interrupted' = interrupted
             /\ exit_code' = exit_code
             /\ write_streamed_channels' =
                   (IF StateFiles \subseteq files' THEN write_streamed_channels ELSE 0)
         ]_vars
    /\ [][write_streamed_channels = 0 => write_streamed_channels' = 0]_vars
    /\ [](pc \in {"signals", "open_fe", "pidfile", "tune", "tune_check"} =>
             (write_streamed_channels = 1 <=> StateFiles \subseteq files))

\* neither the log file nor the list of streamed channels could be opened and
\* main() has opened the frontend and tuned
C13_Witness ==
    /\ LogFileFailed
    /\ "channels_streamed" \notin files
    /\ write_streamed_channels = 0
    /\ fds.fd_frontend = "open"
    /\ pc = "tune_check"
    /\ iRet = 1
    /\ interrupted = 0

\* the directives that belong to a channel
ChannelKeys == {"service_id", "ts_id", "pids", "pmt_pid", "name"}

\* C14: when the line read last is service_id, ts_id, pids, pmt_pid or name and
\* no new_channel line came before it, the process has exited with ERROR_CONF,
\* every channel record is as it was cleared, no file has been created and
\* the frontend has not been opened.
C14_ChannelDirectiveNeedsChannel ==
    (current_line.key \in ChannelKeys /\ ichan < 0) =>
        /\ pc = "exited"
        /\ exit_code = ERROR_CONF
        /\ chan_p = InitialConf.chan_p
        /\ files = {}
        /\ fds.fd_frontend = "unset"

\* C15: dvr_buffer_size is at least 1 at every point of the configuration, and
\* once the post-processing is done max_thread_buffer_size is at least
\* dvr_buffer_size and dvr_buffer_size is at least 20 when t2mi_pid > 0,
\* whatever dvr_buffer_size, dvr_thread_buffer_size and t2mi_pid lines the file
\* holds and in whatever order.
C15_BufferSizesNormalised ==
    /\ card_buffer.dvr_buffer_size >= 1
    /\ pc \in {"log_file", "sink_check"} =>
          /\ card_buffer.max_thread_buffer_size >= card_buffer.dvr_buffer_size
          /\ chan_p.t2mi_pid > 0 => card_buffer.dvr_buffer_size >= 20

\* t2mi_pid=100, dvr_thread_buffer_size=3 and dvr_buffer_size=5, in that
\* order: both sizes were raised to 20
C15_Witness ==
    /\ pc = "sink_check"
    /\ ndirectives = 3
    /\ current_line = Line("dvr_buffer_size", <<Str(<<5>>)>>)
    /\ chan_p.t2mi_pid = 100
    /\ card_buffer.dvr_buffer_size = 20
    /\ card_buffer.max_thread_buffer_size = 20

\* the option is on or off because a line of the file said so
UserSet(option) == option # "OPTION_UNDEFINED"

\* C16: once the sink validation has run, a TTL of 0 comes with multicast off,
\* and an RTP header or SAP announces that are on come with multicast on; the
\* post-processing changes sap, rewrite_pat and rewrite_sdt only under
\* autoconfiguration, only from undefined and only to on.
C16_MulticastDependentFeatures ==
    /\ [](pc \in {"state_files", "close"} =>
             /\ multi_p.ttl = 0 => multi_p.multicast = 0
             /\ multi_p.rtp_header # 0 => multi_p.multicast # 0
             /\ sap_p.sap = "OPTION_ON" => multi_p.multicast # 0)
    /\ [][EndOfFile =>
             /\ UserSet(sap_p.sap) => sap_p'.sap = sap_p.sap
             /\ UserSet(rewrite_vars.rewrite_pat) =>
                   rewrite_vars'.rewrite_pat = rewrite_vars.rewrite_pat
             /\ UserSet(rewrite_vars.rewrite_sdt) =>
                   rewrite_vars'.rewrite_sdt = rewrite_vars.rewrite_sdt
             /\ (sap_p' # sap_p \/ rewrite_vars' # rewrite_vars) =>
                   auto_p.autoconfiguration # 0
             /\ sap_p' # sap_p => (sap_p'.sap = "OPTION_ON" /\ multi_p.multicast # 0)
             /\ \A o \in {"rewrite_pat", "rewrite_sdt"} :
                   rewrite_vars'[o] # rewrite_vars[o] => rewrite_vars'[o] = "OPTION_ON"
         ]_vars

\* autoconfiguration=1, multicast_ttl=0, unicast=1: autoconfiguration turned
\* SAP and the rewriting on, and the validation turned multicast and SAP off
C16_Witness ==
    /\ pc = "state_files"
    /\ auto_p.autoconfiguration = 1
    /\ multi_p.ttl = 0
    /\ multi_p.multicast = 0
    /\ unic_p.unicast = 1
    /\ sap_p.sap = "OPTION_OFF"
    /\ rewrite_vars.rewrite_pat = "OPTION_ON"
    /\ rewrite_vars.rewrite_sdt = "OPTION_ON"
====
